---- MODULE Spec2Model ----
(***************************************************************************)
(* Model of feather's terrain density generator                            *)
(* (server/src/worldgen/noise.rs, Wrapped3DPerlinNoise) and of the network *)
(* byte buffer (core/src/bytebuf.rs, ByteBuf).                             *)
(*                                                                         *)
(* Numbers.  The f32 densities are modelled in exact arithmetic as         *)
(* fixed-point integers: the integer n stands for the real n / Unit.  Unit *)
(* is a multiple of scale_vertical * scale_horizontal^2 for every scale    *)
(* the model draws, and the noise source yields whole numbers, so every    *)
(* division the interpolation loops perform is exact.  Rounding of f32 is  *)
(* therefore outside the model.                                            *)
(* The frequency is kept in hundredths (2 stands for 0.02).                *)
(***************************************************************************)
EXTENDS Integers, Sequences, FiniteSets

VARIABLES
    cfg,                  \* the Wrapped3DPerlinNoise value (its nine fields)
    pc,                   \* position of the caller / of the running generate call
    avx2,                 \* what is_x86_feature_detected!("avx2") answered for this call
    subchunk_horizontal,  \* local of generate_fallback
    subchunk_vertical,    \* local of generate_fallback
    densities,            \* local of generate_fallback: the lattice
    buf,                  \* local of generate_fallback: the dense field
    log,                  \* history: the writes of the loops, <<x, y, z, position, value>>
    steps,                \* history: the stages the call went through
    outcome,              \* "none", "returned", "panic_div_zero", "panic_index"
    inner,                \* ByteBuf.inner: the stored bytes
    capacity,             \* ByteBuf.inner.capacity()
    read_cursor_position, \* ByteBuf.read_cursor_position
    marked_read_position, \* ByteBuf.marked_read_position
    bb_outcome            \* "ok" or "panic" (arithmetic overflow, slice out of range)

noiseVars == <<cfg, pc, avx2, subchunk_horizontal, subchunk_vertical, densities,
               buf, log, steps, outcome>>
bufVars == <<inner, capacity, read_cursor_position, marked_read_position, bb_outcome>>
vars == <<cfg, pc, avx2, subchunk_horizontal, subchunk_vertical, densities,
          buf, log, steps, outcome,
          inner, capacity, read_cursor_position, marked_read_position, bb_outcome>>

(***************************************************************************)
(* Bounds of the model.                                                    *)
(***************************************************************************)
MaxOffset == 1
MaxCells == 4096
MaxByte == 1
MaxCapacity == 4

\* Arguments the model draws for new and for the setters.
Seeds == {0, 1}
Frequencies == {5}
Amplitudes == {100}
SizesHorizontal == {8, 16, 20}
SizesVertical == {8}
ScalesHorizontal == {0, 4, 5}
ScalesVertical == {4, 8}
OffsetsX == (0 - MaxOffset)..MaxOffset
OffsetsZ == {1}

\* One real unit in fixed point: a multiple of 8 * 4^2 and of 8 * 5^2.
Unit == 8 * 64 * 25

(***************************************************************************)
(* Field Configuration                                                     *)
(***************************************************************************)
DefaultFrequency == 2
DefaultAmplitude == 400
DefaultSizeHorizontal == 16
DefaultSizeVertical == 256
DefaultScaleHorizontal == 4
DefaultScaleVertical == 8

new(seed) ==
    [seed |-> seed,
     frequency |-> DefaultFrequency,
     amplitude |-> DefaultAmplitude,
     size_horizontal |-> DefaultSizeHorizontal,
     size_vertical |-> DefaultSizeVertical,
     offset_x |-> 0,
     offset_z |-> 0,
     scale_horizontal |-> DefaultScaleHorizontal,
     scale_vertical |-> DefaultScaleVertical]

with_frequency(c, frequency) == [c EXCEPT !.frequency = frequency]

with_amplitude(c, amplitude) == [c EXCEPT !.amplitude = amplitude]

with_size(c, xz, y) == [c EXCEPT !.size_horizontal = xz, !.size_vertical = y]

with_offset(c, x, z) == [c EXCEPT !.offset_x = x, !.offset_z = z]

\* Line 101 assigns size_vertical; scale_vertical is never assigned.
with_scale(c, horizontal, vertical) ==
    [c EXCEPT !.scale_horizontal = horizontal, !.size_vertical = vertical]

\* The invariant the field comments state (lines 40-43), with positivity.
ValidConfig(c) ==
    /\ c.size_horizontal > 0 /\ c.size_vertical > 0
    /\ c.scale_horizontal > 0 /\ c.scale_vertical > 0
    /\ c.size_horizontal % c.scale_horizontal = 0
    /\ c.size_vertical % c.scale_vertical = 0

Cells(c) == c.size_horizontal * c.size_horizontal * c.size_vertical

(***************************************************************************)
(* Integer helpers                                                         *)
(***************************************************************************)
\* Rust's integer division truncates toward zero (b > 0 here).
TruncDiv(a, b) == IF a >= 0 THEN a \div b ELSE 0 - ((0 - a) \div b)

\* Bitwise or of two naturals, four bits at a time.
RECURSIVE BitOrBits(_, _, _)
BitOrBits(a, b, n) ==
    IF n = 0 THEN 0
    ELSE (IF a % 2 = 1 \/ b % 2 = 1 THEN 1 ELSE 0)
             + 2 * BitOrBits(a \div 2, b \div 2, n - 1)

NibbleOr == [a \in 0..15 |-> [b \in 0..15 |-> BitOrBits(a, b, 4)]]

RECURSIVE BitOr(_, _)
BitOr(a, b) ==
    IF a = 0 THEN b
    ELSE IF b = 0 THEN a
    ELSE NibbleOr[a % 16][b % 16] + 16 * BitOr(a \div 16, b \div 16)

Shl(a, n) == a * (2 ^ n)

\* pub fn index: ((y << 8) | z << 4) | x
index(x, y, z) == BitOr(BitOr(Shl(y, 8), Shl(z, 4)), x)

uninterpolated_index(c, x, y, z) ==
    LET length == c.size_horizontal \div c.scale_horizontal + 1
    IN  y * (length * length) + (z * length) + x

(***************************************************************************)
(* Gradient Noise Source (external: simdnoise).  A deterministic pure      *)
(* function of the absolute sample coordinate, the frequency and the seed; *)
(* the samples come in (y, z, x)-major order.                              *)
(***************************************************************************)
NoiseAt(seed, freq, ax, ay, az) ==
    LET u == ax * freq
        v == ay * freq
        w == az * freq
    IN  Unit * (((u * u + 3 * v + 5 * w * w + u * w + 7 * seed + v * w) % 7) - 3)

gradient_3d_offset(x_offset, width, y_offset, height, z_offset, depth, freq, seed) ==
    [i \in 0..(width * height * depth - 1) |->
        LET y == i \div (width * depth)
            z == (i % (width * depth)) \div width
            x == i % width
        IN  NoiseAt(seed, freq, x_offset + x, y_offset + y, z_offset + z)]

(***************************************************************************)
(* Lattice Builder (generate_fallback, lines 134-152)                      *)
(***************************************************************************)
\* A sampling origin that forgets the division by the scale.
origin_undivided(size, offset, scale) == size * offset

\* (self.size_horizontal as i32 * self.offset_x / self.scale_horizontal as i32) as f32
origin(size, offset, scale) == TruncDiv(size * offset, scale)

SampleLattice(c, sub_h, sub_v) ==
    gradient_3d_offset(
        origin(c.size_horizontal, c.offset_x, c.scale_horizontal), sub_h + 1,
        0, sub_v + 1,
        origin(c.size_horizontal, c.offset_z, c.scale_horizontal), sub_h + 1,
        c.frequency, c.seed)

\* densities.iter_mut().for_each(|x| *x *= self.amplitude)
Amplify(c, d) == [i \in DOMAIN d |-> d[i] * c.amplitude]

\* vec![0.0; size_horizontal * size_horizontal * size_vertical]
ZeroBuffer(c) == [i \in 0..(Cells(c) - 1) |-> 0]

(***************************************************************************)
(* Interpolator (generate_fallback, lines 159-233).  The loops thread      *)
(* st = [buf, log, ok, len]; ok turns FALSE when an indexed write misses    *)
(* the buffer of len cells, which panics and ends the call.                *)
(***************************************************************************)
\* buf[index(x, y, z)] = density
Write(st, x, y, z, density) ==
    LET p == index(x, y, z)
    IN  IF p >= st.len
        THEN [st EXCEPT !.ok = FALSE]
        ELSE [buf |-> [st.buf EXCEPT ![p] = density],
              log |-> Append(st.log, <<x, y, z, p, density>>),
              ok |-> TRUE,
              len |-> st.len]

\* A Z step that divides by the vertical scale.
z_step_vertical(c, z_base, z_corner) == (z_corner - z_base) \div c.scale_vertical

\* (z_corner - z_base) / scale_horizontal
z_step(c, z_base, z_corner) == (z_corner - z_base) \div c.scale_horizontal

RECURSIVE LoopBlockZ(_, _, _, _, _, _, _, _, _)
LoopBlockZ(c, st, sub, blocky, blockx, z_base, z_corner, density, blockz) ==
    IF ~st.ok \/ blockz >= c.scale_horizontal THEN st
    ELSE LoopBlockZ(c,
            Write(st,
                  blockx + (c.scale_horizontal * sub[1]),
                  blocky + (c.scale_vertical * sub[2]),
                  blockz + (c.scale_horizontal * sub[3]),
                  density),
            sub, blocky, blockx, z_base, z_corner,
            density + z_step(c, z_base, z_corner),
            blockz + 1)

RECURSIVE LoopBlockX(_, _, _, _, _, _, _, _)
LoopBlockX(c, st, sub, base, blocky, z_base, z_corner, blockx) ==
    IF ~st.ok \/ blockx >= c.scale_horizontal THEN st
    ELSE LoopBlockX(c,
            LoopBlockZ(c, st, sub, blocky, blockx, z_base, z_corner, z_base, 0),
            sub, base, blocky,
            z_base + (base[2] - base[1]) \div c.scale_horizontal,
            z_corner + (base[4] - base[3]) \div c.scale_horizontal,
            blockx + 1)

RECURSIVE LoopBlockY(_, _, _, _, _, _)
LoopBlockY(c, st, sub, base, offset, blocky) ==
    IF ~st.ok \/ blocky >= c.scale_vertical THEN st
    ELSE LoopBlockY(c,
            LoopBlockX(c, st, sub, base, blocky, base[1], base[3], 0),
            sub,
            <<base[1] + offset[1], base[2] + offset[2],
              base[3] + offset[3], base[4] + offset[4]>>,
            offset,
            blocky + 1)

\* The body of the three subchunk loops (lines 180-230).
Subchunk(c, d, st, subx, suby, subz) ==
    LET base1 == d[uninterpolated_index(c, subx, suby, subz)]
        base2 == d[uninterpolated_index(c, subx + 1, suby, subz)]
        base3 == d[uninterpolated_index(c, subx, suby, subz + 1)]
        base4 == d[uninterpolated_index(c, subx + 1, suby, subz + 1)]
        offset1 == (d[uninterpolated_index(c, subx, suby + 1, subz)] - base1)
                       \div c.scale_vertical
        offset2 == (d[uninterpolated_index(c, subx + 1, suby + 1, subz)] - base2)
                       \div c.scale_vertical
        offset3 == (d[uninterpolated_index(c, subx, suby + 1, subz + 1)] - base3)
                       \div c.scale_vertical
        offset4 == (d[uninterpolated_index(c, subx + 1, suby + 1, subz + 1)] - base4)
                       \div c.scale_vertical
    IN  LoopBlockY(c, st, <<subx, suby, subz>>,
                   <<base1, base2, base3, base4>>,
                   <<offset1, offset2, offset3, offset4>>, 0)

RECURSIVE LoopSubZ(_, _, _, _, _, _, _)
LoopSubZ(c, d, st, sub_h, subx, suby, subz) ==
    IF ~st.ok \/ subz >= sub_h THEN st
    ELSE LoopSubZ(c, d, Subchunk(c, d, st, subx, suby, subz), sub_h, subx, suby, subz + 1)

RECURSIVE LoopSubY(_, _, _, _, _, _, _)
LoopSubY(c, d, st, sub_h, sub_v, subx, suby) ==
    IF ~st.ok \/ suby >= sub_v THEN st
    ELSE LoopSubY(c, d, LoopSubZ(c, d, st, sub_h, subx, suby, 0), sub_h, sub_v, subx, suby + 1)

RECURSIVE LoopSubX(_, _, _, _, _, _)
LoopSubX(c, d, st, sub_h, sub_v, subx) ==
    IF ~st.ok \/ subx >= sub_h THEN st
    ELSE LoopSubX(c, d, LoopSubY(c, d, st, sub_h, sub_v, subx, 0), sub_h, sub_v, subx + 1)

Interpolate(c, d, b, sub_h, sub_v) ==
    LoopSubX(c, d,
             [buf |-> b, log |-> <<>>, ok |-> TRUE, len |-> Cells(c)],
             sub_h, sub_v, 0)

(***************************************************************************)
(* generate_fallback as a function of the configuration: the value of      *)
(* every local and history variable when the call ends.                    *)
(***************************************************************************)
NoLocals ==
    [subchunk_horizontal |-> 0, subchunk_vertical |-> 0, densities |-> <<>>,
     buf |-> <<>>, log |-> <<>>, steps |-> <<>>, outcome |-> "none"]

generate_fallback(c) ==
    IF c.scale_horizontal = 0 \/ c.scale_vertical = 0
    THEN [NoLocals EXCEPT !.outcome = "panic_div_zero"]
    ELSE LET sub_h == c.size_horizontal \div c.scale_horizontal
             sub_v == c.size_vertical \div c.scale_vertical
             d == Amplify(c, SampleLattice(c, sub_h, sub_v))
             st == Interpolate(c, d, ZeroBuffer(c), sub_h, sub_v)
         IN  IF st.ok
             THEN [subchunk_horizontal |-> sub_h, subchunk_vertical |-> sub_v,
                   densities |-> d, buf |-> st.buf, log |-> st.log,
                   steps |-> <<"sample", "amplify", "allocate", "interpolate">>,
                   outcome |-> "returned"]
             ELSE [subchunk_horizontal |-> sub_h, subchunk_vertical |-> sub_v,
                   densities |-> d, buf |-> <<>>, log |-> st.log,
                   steps |-> <<"sample", "amplify", "allocate", "interpolate">>,
                   outcome |-> "panic_index"]

\* A vectorized strategy left unimplemented.
generate_avx2_unimplemented(c) == [NoLocals EXCEPT !.outcome = "panic_unimplemented"]

\* fn generate_avx2: self.generate_fallback()
generate_avx2(c) == generate_fallback(c)

\* fn generate, given what the capability detection answered.
generate(c, has_avx2) == IF has_avx2 THEN generate_avx2(c) ELSE generate_fallback(c)

(***************************************************************************)
(* The caller: the builder's setters, and calls of generate.               *)
(***************************************************************************)
NoCall ==
    /\ avx2 = FALSE
    /\ subchunk_horizontal = 0
    /\ subchunk_vertical = 0
    /\ densities = <<>>
    /\ buf = <<>>
    /\ log = <<>>
    /\ steps = <<>>
    /\ outcome = "none"

\* ByteBuf::new
ByteBuf_new ==
    /\ inner = <<>>
    /\ capacity = 0
    /\ read_cursor_position = 0
    /\ marked_read_position = 0
    /\ bb_outcome = "ok"

Init ==
    /\ \E seed \in Seeds : cfg = new(seed)
    /\ pc = "idle"
    /\ NoCall
    /\ ByteBuf_new

locals == <<avx2, subchunk_horizontal, subchunk_vertical, densities, buf, log,
            steps, outcome>>

Setter(c) ==
    /\ pc = "idle"
    /\ cfg' = c
    /\ UNCHANGED <<pc, locals, bufVars>>

WithFrequency == \E frequency \in Frequencies : Setter(with_frequency(cfg, frequency))

WithAmplitude == \E amplitude \in Amplitudes : Setter(with_amplitude(cfg, amplitude))

WithSize == \E xz \in SizesHorizontal, y \in SizesVertical : Setter(with_size(cfg, xz, y))

WithOffset == \E x \in OffsetsX, z \in OffsetsZ : Setter(with_offset(cfg, x, z))

WithScale ==
    \E horizontal \in ScalesHorizontal, vertical \in ScalesVertical :
        Setter(with_scale(cfg, horizontal, vertical))

\* fn generate (lines 108-118): the capability is detected and a strategy chosen.
Generate ==
    /\ pc = "idle"
    /\ Cells(cfg) <= MaxCells
    /\ \E detected \in BOOLEAN :
        /\ avx2' = detected
        /\ pc' = IF detected THEN "avx2" ELSE "fallback"
    /\ UNCHANGED <<cfg, subchunk_horizontal, subchunk_vertical, densities, buf, log, steps, outcome, bufVars>>

\* fn generate_avx2 (lines 120-123): the call of generate_fallback, as one step.
GenerateAvx2 ==
    /\ pc = "avx2"
    /\ \E r \in {generate_avx2(cfg)} :
           /\ subchunk_horizontal' = r.subchunk_horizontal
           /\ subchunk_vertical' = r.subchunk_vertical
           /\ densities' = r.densities
           /\ buf' = r.buf
           /\ log' = r.log
           /\ steps' = r.steps
           /\ outcome' = r.outcome
           /\ pc' = IF r.outcome = "returned" THEN "done" ELSE "panicked"
    /\ UNCHANGED <<cfg, avx2, bufVars>>

\* Lines 134-135: the subchunk counts; a zero scale panics (division by zero).
FallbackSubchunks ==
    /\ pc = "fallback"
    /\ IF cfg.scale_horizontal = 0 \/ cfg.scale_vertical = 0
       THEN /\ pc' = "panicked"
            /\ outcome' = "panic_div_zero"
            /\ UNCHANGED <<subchunk_horizontal, subchunk_vertical>>
       ELSE /\ pc' = "sample"
            /\ subchunk_horizontal' = cfg.size_horizontal \div cfg.scale_horizontal
            /\ subchunk_vertical' = cfg.size_vertical \div cfg.scale_vertical
            /\ UNCHANGED outcome
    /\ UNCHANGED <<cfg, avx2, densities, buf, log, steps, bufVars>>

\* Lines 139-149: the noise source is sampled.
FallbackSample ==
    /\ pc = "sample"
    /\ densities' = SampleLattice(cfg, subchunk_horizontal, subchunk_vertical)
    /\ steps' = Append(steps, "sample")
    /\ pc' = "amplify"
    /\ UNCHANGED <<cfg, avx2, subchunk_horizontal, subchunk_vertical, buf, log,
                   outcome, bufVars>>

\* Line 152.
FallbackAmplify ==
    /\ pc = "amplify"
    /\ densities' = Amplify(cfg, densities)
    /\ steps' = Append(steps, "amplify")
    /\ pc' = "allocate"
    /\ UNCHANGED <<cfg, avx2, subchunk_horizontal, subchunk_vertical, buf, log,
                   outcome, bufVars>>

\* Lines 156-157.
FallbackAllocate ==
    /\ pc = "allocate"
    /\ buf' = ZeroBuffer(cfg)
    /\ steps' = Append(steps, "allocate")
    /\ pc' = "interpolate"
    /\ UNCHANGED <<cfg, avx2, subchunk_horizontal, subchunk_vertical, densities, log,
                   outcome, bufVars>>

\* Lines 159-233: the loops; an indexed write past the buffer panics.
FallbackInterpolate ==
    /\ pc = "interpolate"
    /\ \E st \in {Interpolate(cfg, densities, buf, subchunk_horizontal,
                                 subchunk_vertical)} :
           /\ log' = st.log
           /\ IF st.ok
              THEN /\ buf' = st.buf
                   /\ pc' = "filled"
                   /\ UNCHANGED outcome
              ELSE /\ buf' = <<>>
                   /\ pc' = "panicked"
                   /\ outcome' = "panic_index"
    /\ steps' = Append(steps, "interpolate")
    /\ UNCHANGED <<cfg, avx2, subchunk_horizontal, subchunk_vertical, densities, bufVars>>

\* Line 235: buf is returned to the caller.
FallbackReturn ==
    /\ pc = "filled"
    /\ pc' = "done"
    /\ outcome' = "returned"
    /\ UNCHANGED <<cfg, avx2, subchunk_horizontal, subchunk_vertical, densities, buf,
                   log, steps, bufVars>>

\* The caller is done with the result (or with the panic) of the call.
Drop ==
    /\ pc \in {"done", "panicked"}
    /\ pc' = "idle"
    /\ avx2' = FALSE
    /\ subchunk_horizontal' = 0
    /\ subchunk_vertical' = 0
    /\ densities' = <<>>
    /\ buf' = <<>>
    /\ log' = <<>>
    /\ steps' = <<>>
    /\ outcome' = "none"
    /\ UNCHANGED <<cfg, bufVars>>

Next ==
    \/ WithFrequency
    \/ WithAmplitude
    \/ WithSize
    \/ WithOffset
    \/ WithScale
    \/ Generate
    \/ GenerateAvx2
    \/ FallbackSubchunks
    \/ FallbackSample
    \/ FallbackAmplify
    \/ FallbackAllocate
    \/ FallbackInterpolate
    \/ FallbackReturn
    \/ Drop

Spec == Init /\ [][Next]_vars

(***************************************************************************)
(* ByteBuf (core/src/bytebuf.rs).  inner is the Vec's content (its len     *)
(* initialized bytes) and capacity its allocation.  A step that panics     *)
(* leaves bb_outcome = "panic" and the buffer is used no further.          *)
(***************************************************************************)
Bytes == 0..MaxByte

Max(a, b) == IF a >= b THEN a ELSE b

\* Vec growth on an append or a reserve that needs `required` > cap: the
\* allocation becomes at least `required`; how much more is the allocator's choice
\* (amortized doubling).
GrownCapacities(cap, required) ==
    IF cap >= required THEN {cap} ELSE {required, Max(2 * cap, required)}

\* new_inner.extend_from_slice(&self.inner): the whole of inner is copied.
remove_prior_content(bytes, position) == bytes

\* ByteBuf::with_capacity
ByteBuf_with_capacity ==
    /\ inner = <<>>
    /\ capacity \in 0..MaxCapacity
    /\ read_cursor_position = 0
    /\ marked_read_position = 0
    /\ bb_outcome = "ok"

InitBytes ==
    /\ cfg = new(0)
    /\ pc = "idle"
    /\ NoCall
    /\ ByteBuf_with_capacity

\* BufMut: a byte is put past len (bytes_mut, advance_mut); putting with no room
\* left panics.
PutU8 ==
    /\ bb_outcome = "ok"
    /\ \E b \in Bytes :
        IF capacity - Len(inner) >= 1
        THEN /\ inner' = Append(inner, b)
             /\ UNCHANGED bb_outcome
        ELSE /\ bb_outcome' = "panic"
             /\ UNCHANGED inner
    /\ UNCHANGED <<capacity, read_cursor_position, marked_read_position, noiseVars>>

\* fn reserve
Reserve ==
    /\ bb_outcome = "ok"
    /\ \E additional \in 1..MaxCapacity :
        /\ Len(inner) + additional <= MaxCapacity
        /\ capacity' \in GrownCapacities(capacity, Len(inner) + additional)
        /\ capacity' <= MaxCapacity
    /\ UNCHANGED <<inner, read_cursor_position, marked_read_position, bb_outcome, noiseVars>>

\* Buf::advance: the cursor moves, unchecked.
Advance ==
    /\ bb_outcome = "ok"
    /\ \E cnt \in 1..MaxCapacity :
        /\ read_cursor_position + cnt <= MaxCapacity + 1
        /\ read_cursor_position' = read_cursor_position + cnt
    /\ UNCHANGED <<inner, capacity, marked_read_position, bb_outcome, noiseVars>>

\* fn mark_read_position
MarkReadPosition ==
    /\ bb_outcome = "ok"
    /\ marked_read_position' = read_cursor_position
    /\ UNCHANGED <<inner, capacity, read_cursor_position, bb_outcome, noiseVars>>

\* fn reset_read_position
ResetReadPosition ==
    /\ bb_outcome = "ok"
    /\ read_cursor_position' = marked_read_position
    /\ UNCHANGED <<inner, capacity, marked_read_position, bb_outcome, noiseVars>>

\* fn remove_prior (lines 59-66)
RemovePrior ==
    /\ bb_outcome = "ok"
    /\ IF read_cursor_position > capacity
       THEN \* capacity - read_cursor_position overflows
            /\ bb_outcome' = "panic"
            /\ UNCHANGED <<inner, capacity>>
       ELSE LET new_capacity == capacity - read_cursor_position
                new_inner == remove_prior_content(inner, read_cursor_position)
            IN  /\ inner' = new_inner
                /\ capacity' \in GrownCapacities(new_capacity, Len(new_inner))
                /\ capacity' <= MaxCapacity
                /\ UNCHANGED bb_outcome
    /\ UNCHANGED <<read_cursor_position, marked_read_position, noiseVars>>

\* fn len: self.inner.len()
len(bytes) == Len(bytes)

NextBytes ==
    \/ PutU8
    \/ Reserve
    \/ Advance
    \/ MarkReadPosition
    \/ ResetReadPosition
    \/ RemovePrior

SpecBytes == InitBytes /\ [][NextBytes]_vars

(***************************************************************************)
(* Properties                                                              *)
(***************************************************************************)
Ended == pc \in {"done", "panicked"}

\* The dense field's layout as the interface states it.
MulIndex(c, x, y, z) ==
    (y * c.size_horizontal * c.size_horizontal) + (z * c.size_horizontal) + x

\* The bytes b[p..]: those from the read position on.
remove_prior_from_cursor(bytes, position) == SubSeq(bytes, position + 1, Len(bytes))

BufLen(b) == Cardinality(DOMAIN b)

WrittenPositions == {log[i][4] : i \in 1..Len(log)}

\* The configuration one region further along X.
NextRegion(c) == [c EXCEPT !.offset_x = c.offset_x + 1]

\* The amplitude-scaled lattice generate_fallback builds for c (lines 134-152).
Lattice(c) ==
    Amplify(c, SampleLattice(c, c.size_horizontal \div c.scale_horizontal,
                                c.size_vertical \div c.scale_vertical))

HorizontalValid(c) ==
    c.scale_horizontal > 0 /\ c.size_horizontal % c.scale_horizontal = 0

\* a + (b - a) * t / n
Lerp(a, b, t, n) == a + ((b - a) * t) \div n

\* Standard trilinear interpolation of the eight lattice corners of the subchunk
\* voxel (x, y, z) lies in: along X, then along Z, then along Y.
Trilinear(c, d, x, y, z) ==
    LET sh == c.scale_horizontal
        sv == c.scale_vertical
        lx == x \div sh
        ly == y \div sv
        lz == z \div sh
        tx == x % sh
        ty == y % sv
        tz == z % sh
        Corner(dx, dy, dz) == d[uninterpolated_index(c, lx + dx, ly + dy, lz + dz)]
        c00 == Lerp(Corner(0, 0, 0), Corner(1, 0, 0), tx, sh)
        c01 == Lerp(Corner(0, 0, 1), Corner(1, 0, 1), tx, sh)
        c10 == Lerp(Corner(0, 1, 0), Corner(1, 1, 0), tx, sh)
        c11 == Lerp(Corner(0, 1, 1), Corner(1, 1, 1), tx, sh)
        c0 == Lerp(c00, c01, tz, sh)
        c1 == Lerp(c10, c11, tz, sh)
    IN  Lerp(c0, c1, ty, sv)

\* C1: generate on a configuration that breaks the scale/size invariant ends in
\* an InvalidScale error, and the call neither samples the noise source nor
\* allocates the buffer.
C1_InvalidScaleRejected ==
    (~ValidConfig(cfg) /\ pc # "idle") =>
        /\ steps = <<>>
        /\ Ended => outcome = "invalid_scale"

\* C2: for a valid configuration, every write of the loops for voxel (x, y, z)
\* goes to position y * sizeHorizontal^2 + z * sizeHorizontal + x.
C2_WritePositionIsMultiplicative ==
    ValidConfig(cfg) =>
        \A i \in 1..Len(log) :
            log[i][4] = MulIndex(cfg, log[i][1], log[i][2], log[i][3])

\* C2, where size_horizontal is the 16 the shifts of index are written for.
C2_WritePositionAt16 ==
    (ValidConfig(cfg) /\ cfg.size_horizontal = DefaultSizeHorizontal) =>
        \A i \in 1..Len(log) :
            log[i][4] = MulIndex(cfg, log[i][1], log[i][2], log[i][3])

\* C3: for a valid configuration, generate completes and returns a sequence of
\* length sizeHorizontal^2 * sizeVertical.
C3_ReturnsFullLength ==
    (ValidConfig(cfg) /\ Ended) =>
        /\ outcome = "returned"
        /\ BufLen(buf) = Cells(cfg)

\* C3, of the calls that return.
C3_LengthWhenReturned ==
    pc = "done" => BufLen(buf) = Cells(cfg)

\* C4: for a valid configuration, when generate ends every position of the dense
\* field has been written exactly once and no write fell outside the buffer.
C4_EveryPositionWrittenOnce ==
    (ValidConfig(cfg) /\ Ended) =>
        /\ outcome = "returned"
        /\ Len(log) = Cells(cfg)
        /\ WrittenPositions = 0..(Cells(cfg) - 1)

\* C4, where size_horizontal is 16.
C4_WrittenOnceAt16 ==
    (ValidConfig(cfg) /\ cfg.size_horizontal = DefaultSizeHorizontal /\ Ended) =>
        /\ outcome = "returned"
        /\ Len(log) = Cells(cfg)
        /\ WrittenPositions = 0..(Cells(cfg) - 1)

\* C5: for a valid configuration, the returned dense field holds at every
\* subchunk origin the lattice value of that subchunk, unchanged.
C5_CornersExact ==
    (ValidConfig(cfg) /\ pc = "done") =>
        \A subx \in 0..(subchunk_horizontal - 1), suby \in 0..(subchunk_vertical - 1),
           subz \in 0..(subchunk_horizontal - 1) :
            buf[MulIndex(cfg, subx * cfg.scale_horizontal, suby * cfg.scale_vertical,
                         subz * cfg.scale_horizontal)]
                = densities[uninterpolated_index(cfg, subx, suby, subz)]

\* C5, where size_horizontal is 16.
C5_CornersExactAt16 ==
    (ValidConfig(cfg) /\ cfg.size_horizontal = DefaultSizeHorizontal /\ pc = "done") =>
        \A subx \in 0..(subchunk_horizontal - 1), suby \in 0..(subchunk_vertical - 1),
           subz \in 0..(subchunk_horizontal - 1) :
            buf[MulIndex(cfg, subx * cfg.scale_horizontal, suby * cfg.scale_vertical,
                         subz * cfg.scale_horizontal)]
                = densities[uninterpolated_index(cfg, subx, suby, subz)]

\* C6 as stated: the rightmost slice (x = sizeHorizontal - 1) of the field of
\* region offsetX = k equals the leftmost slice (x = 0) of the field of region
\* offsetX = k + 1, for every y and z.  Stated where size_horizontal is 16, so
\* that the positions index computes are the positions of the layout.
C6_RightSliceEqualsNextLeftSlice ==
    (ValidConfig(cfg) /\ cfg.size_horizontal = DefaultSizeHorizontal /\ pc = "done") =>
        LET next == generate(NextRegion(cfg), avx2)
        IN  /\ next.outcome = "returned"
            /\ \A y \in 0..(cfg.size_vertical - 1), z \in 0..(cfg.size_horizontal - 1) :
                   buf[MulIndex(cfg, cfg.size_horizontal - 1, y, z)]
                       = next.buf[MulIndex(cfg, 0, y, z)]

\* C6 as amended: when the horizontal scale divides the horizontal size, the
\* far lattice face lx = subchunk_horizontal of region offsetX = k equals the
\* near lattice face lx = 0 of region offsetX = k + 1, for every ly and lz.
C6_LatticeFaceShared ==
    (HorizontalValid(cfg) /\ pc \in {"allocate", "interpolate", "filled", "done"}) =>
        LET next == Lattice(NextRegion(cfg))
        IN  \A ly \in 0..subchunk_vertical, lz \in 0..subchunk_horizontal :
                densities[uninterpolated_index(cfg, subchunk_horizontal, ly, lz)]
                    = next[uninterpolated_index(cfg, 0, ly, lz)]

C6_Witness ==
    /\ pc = "done"
    /\ ValidConfig(cfg)
    /\ cfg.offset_x # 0
    /\ \E ly \in 0..subchunk_vertical, lz \in 0..subchunk_horizontal :
           densities[uninterpolated_index(cfg, subchunk_horizontal, ly, lz)]
               # densities[uninterpolated_index(cfg, 0, ly, lz)]

\* C7: with_scale(h, v) yields scale_horizontal = h and scale_vertical = v and
\* leaves every other field, size_vertical among them, as it was.
C7_WithScaleSetsScales ==
    [][\A h \in ScalesHorizontal \ {cfg.scale_horizontal}, v \in ScalesVertical :
          Setter(with_scale(cfg, h, v)) =>
              cfg' = [cfg EXCEPT !.scale_horizontal = h, !.scale_vertical = v]]_vars

\* C8: the result of generate is the same whether AVX2 is detected or not, and
\* the capability's absence is no error: a call that ran with AVX2 reported
\* absent ends as generate ends on the same configuration with AVX2 reported
\* present, with the same dense field (same length, same value everywhere).
C8_StrategiesAgree ==
    (Ended /\ ~avx2) =>
        LET other == generate(cfg, TRUE)
        IN  /\ outcome = other.outcome
            /\ buf = other.buf

C8_Witness ==
    /\ pc = "done"
    /\ ~avx2
    /\ ValidConfig(cfg)
    /\ \E p \in 0..(Cells(cfg) - 1) : buf[p] # 0

\* C9: remove_prior with the read position p <= len leaves exactly the bytes
\* b[p..] stored, in order, so that len() = old len - p.
C9_RemovePriorDropsReadBytes ==
    [][(RemovePrior /\ bb_outcome' = "ok" /\ read_cursor_position <= len(inner)) =>
          /\ inner' = remove_prior_from_cursor(inner, read_cursor_position)
          /\ len(inner') = len(inner) - read_cursor_position]_vars

\* C10: in exact arithmetic, for a valid configuration every value the
\* forward-difference loops have written for a voxel when the call ends is the
\* trilinear interpolation of the eight lattice corners of the voxel's subchunk
\* at the voxel's fractions.
C10_WritesAreTrilinear ==
    (ValidConfig(cfg) /\ Ended) =>
        \A i \in 1..Len(log) :
            log[i][5] = Trilinear(cfg, densities, log[i][1], log[i][2], log[i][3])

C10_Witness ==
    /\ pc = "done"
    /\ ValidConfig(cfg)
    /\ \E i \in 1..Len(log) :
        /\ log[i][1] % cfg.scale_horizontal # 0
        /\ log[i][2] % cfg.scale_vertical # 0
        /\ log[i][3] % cfg.scale_horizontal # 0
        /\ log[i][5] # densities[uninterpolated_index(cfg,
                            log[i][1] \div cfg.scale_horizontal,
                            log[i][2] \div cfg.scale_vertical,
                            log[i][3] \div cfg.scale_horizontal)]

====
